---- MODULE Spec2Model ----
(***************************************************************************)
(* Model of backend/clip_model.py: the embedding index lifecycle           *)
(* (load_embeddings / save_embeddings / build_index / ensure_index) and    *)
(* the top-k similarity search, driven by main().                          *)
(*                                                                         *)
(* Abstractions: an embedding vector is represented by the id of the       *)
(* product it was computed from; cosine scores are scaled integers; the    *)
(* created_at timestamp of the payload is not modelled.                    *)
(***************************************************************************)
EXTENDS Integers, Sequences, FiniteSets, TLC

\* ---------------------------------------------------------------- bounds
MaxId == 2          \* product ids 1..MaxId in the lifecycle specification
MaxBuildCat == 18   \* longest catalog in the build specification (> B + 1)
MaxRec == 3         \* product ids 1..MaxRec in the query specification
MaxTopK == 2        \* --top_k ranges over -1..MaxTopK
MaxScore == 1       \* scaled cosine scores range over -MaxScore..MaxScore

\* ------------------------------------------------------ program constants
B == 16

MODEL_NAME == "ViT-B/32"
OldModel == "RN50"
Models == {MODEL_NAME, OldModel}

Ids == 1..MaxId
Metas == {"m1", "m2"}
ScoreVals == (0 - MaxScore)..MaxScore
TopKVals == (0 - 1)..MaxTopK

Min(a, b) == IF a <= b THEN a ELSE b

Range(s) == {s[i] : i \in 1..Len(s)}

\* ------------------------------------------------------------ file states
\* EMBEDDINGS_JSON is absent, holds a complete payload ("index"), or holds
\* text that json.load cannot parse: "empty" right after open(..., 'w'),
\* "partial" while json.dump has written only part of the payload.
NoFile == [kind |-> "absent", model |-> "", count |-> 0, items |-> <<>>]
EmptyFile == [kind |-> "empty", model |-> "", count |-> 0, items |-> <<>>]
PartialFile == [kind |-> "partial", model |-> "", count |-> 0, items |-> <<>>]

\* A save_embeddings that miscounts: 'count' one more than len(items)
PayloadMiscount(m, its) ==
    [kind |-> "index", model |-> m, count |-> Len(its) + 1, items |-> its]

\* save_embeddings: the payload handed to json.dump
Payload(m, its) ==
    [kind |-> "index", model |-> m, count |-> Len(its), items |-> its]

Corrupt(f) == f.kind \in {"empty", "partial"}

\* load_embeddings: {} when the file does not exist, the parsed dict
\* otherwise; json.load raises on an empty or truncated file.
LoadRaises(f) == Corrupt(f)
LoadEmbeddings(f) == IF f.kind = "absent" THEN NoFile ELSE f

\* ------------------------------------------------------------ build_index
\* A flush_batch that puts the new batch in front of the earlier items
FlushBatchFront(its, batch) == [items |-> batch \o its, batch |-> <<>>]

\* flush_batch after a successful encode_image: every batched id is
\* appended to items in batch order and the batch is cleared.
FlushBatch(its, batch) == [items |-> its \o batch, batch |-> <<>>]

\* An ensure_index that compares the count with <= instead of <
NeedsRebuildLe(force, idx, nprod, m) ==
    \/ force
    \/ idx.kind = "absent"
    \/ idx.model # m
    \/ idx.count <= nprod

\* ensure_index, line 133: the rebuild condition on the loaded dict
NeedsRebuild(force, idx, nprod, m) ==
    \/ force
    \/ idx.kind = "absent"
    \/ idx.model # m
    \/ idx.count < nprod

\* search, lines 148-149: the index records whose id is a key of pmap
Retained(its, prods) ==
    SelectSeq(its, LAMBDA i : i \in {prods[j].id : j \in 1..Len(prods)})

\* search, line 145 and line 170: pmap[pid] (ids are unique in the catalog;
\* a dict built from duplicates keeps the last entry)
Lookup(prods, pid) ==
    prods[CHOOSE j \in 1..Len(prods) :
            /\ prods[j].id = pid
            /\ \A l \in (j + 1)..Len(prods) : prods[l].id # pid]

\* A search that ranks every retained record, ignoring --top_k
TopKCountAll(top_k, n) == n

\* search, line 163: k handed to torch.topk
TopKCount(top_k, n) == Min(top_k, n)

\* torch.topk(sims, k): k distinct positions holding the k largest values,
\* listed by descending value.  torch does not define which of several
\* equal values is selected or listed first, so every such answer is allowed.
TopK(sims, k) ==
    LET n == Len(sims) IN
    {s \in [1..k -> 1..n] :
        /\ \A i, j \in 1..k : i < j => (s[i] # s[j] /\ sims[s[i]] >= sims[s[j]])
        /\ \A p \in 1..n : (\A i \in 1..k : s[i] # p) =>
                               \A i \in 1..k : sims[p] <= sims[s[i]]}

\* A search without the threshold test
KeepAll(score, min_score) == TRUE

\* search, line 167: a selected record is kept unless score < min_score
KeepScore(score, min_score) == ~(score < min_score)

\* A search that takes the product at position i of the catalog instead of
\* the product whose id is ids[i]
MakeResultByPos(prods, ids, i, score) ==
    LET p == IF i <= Len(prods) THEN prods[i] ELSE Lookup(prods, ids[i]) IN
    [id |-> p.id, meta |-> p.meta, score |-> score]

\* search, lines 169-174: one result row
MakeResult(prods, ids, i, score) ==
    LET p == Lookup(prods, ids[i]) IN
    [id |-> p.id, meta |-> p.meta, score |-> score]

\* search, lines 165-174: the loop over zip(vals, idxs)
RECURSIVE Rows(_, _, _, _, _, _)
Rows(prods, ids, sims, sel, min_score, j) ==
    IF j > Len(sel) THEN <<>>
    ELSE LET rest == Rows(prods, ids, sims, sel, min_score, j + 1) IN
         IF KeepScore(sims[sel[j]], min_score)
         THEN <<MakeResult(prods, ids, sel[j], sims[sel[j]])>> \o rest
         ELSE rest

\* ------------------------------------------------------------------ state
VARIABLES
    products,    \* data/products.json: sequence of [id, meta], ids unique
    model_name,  \* MODEL_NAME of the deployed program
    file,        \* data/embeddings.json
    pc,          \* position of the main() process
    force,       \* ensure_index's rebuild argument
    caller,      \* who called ensure_index: "main" (line 227) or "search"
    pos,         \* build_index: number of products the loop has consumed
    items,       \* build_index: items
    batch_ids,   \* build_index: batch_ids (batch_imgs runs in parallel)
    idx,         \* search: index['items'] as returned by ensure_index
    out,         \* what main() printed: [kind, results]
    observed,    \* what another process last saw when it read the file
    ens,         \* history: the last ensure_index call of this run
    bld,         \* history: the last build_index attempt (after the process
                 \* has gone, only a completed build's outcome is kept)
    q            \* history: the inputs of the last ranking

vars == <<products, model_name, file, pc, force, caller, pos, items,
          batch_ids, idx, out, observed, ens, bld, q>>

NoOut == [kind |-> "none", results |-> <<>>]
ErrOut == [kind |-> "error", results |-> <<>>]
NoEns == [kind |-> "none"]
NoBld == [state |-> "none", loaded |-> {}, hit |-> FALSE, prev |-> NoFile]
NoQ == [kind |-> "none"]

Terminal == {"done", "error", "crashed", "killed"}

ProductIds(prods) == {prods[j].id : j \in 1..Len(prods)}

Init ==
    /\ products = <<>>
    /\ model_name = OldModel
    /\ file = NoFile
    /\ pc = "idle"
    /\ force = FALSE
    /\ caller = "search"
    /\ pos = 0
    /\ items = <<>>
    /\ batch_ids = <<>>
    /\ idx = <<>>
    /\ out = NoOut
    /\ observed = "none"
    /\ ens = NoEns
    /\ bld = NoBld
    /\ q = NoQ

\* ---------------------------------------------------------------- main()
\* An exception leaving ensure_index/build_index: line 227 is outside any
\* try, so main dies with a traceback; inside search() it is caught at
\* line 232 and printed as {'error': ...}.
RaiseFrom ==
    /\ pc' = IF caller = "main" THEN "crashed" ELSE "error"
    /\ out' = IF caller = "main" THEN NoOut ELSE ErrOut

\* ensure_index returns its: main (line 227) drops the value and goes on to
\* search(), whose own ensure_index(rebuild=False) follows; search ranks.
ReturnIndex(its) ==
    /\ idx' = its
    /\ IF caller = "main"
       THEN pc' = "ensure" /\ force' = FALSE /\ caller' = "search"
       ELSE pc' = "rank" /\ UNCHANGED <<force, caller>>

\* main, lines 226-230 (query mode): --rebuild or not
MainStart ==
    /\ pc = "idle"
    /\ \E rb \in BOOLEAN :
        /\ force' = rb
        /\ caller' = IF rb THEN "main" ELSE "search"
    /\ pc' = "ensure"
    /\ UNCHANGED <<products, model_name, file, pos, items, batch_ids, idx,
                   out, observed, ens, bld, q>>

\* ensure_index, lines 131-135 up to the call of build_index
EnsureIndex ==
    /\ pc = "ensure"
    /\ IF LoadRaises(file)
       THEN /\ ens' = [kind |-> "raised", force |-> force, loaded |-> file,
                       nprod |-> Len(products), model |-> model_name,
                       build |-> FALSE, ret |-> <<>>,
                       after |-> FALSE, nfail |-> 0]
            /\ RaiseFrom
            /\ UNCHANGED <<force, caller, pos, items, batch_ids, idx, bld>>
       ELSE LET l == LoadEmbeddings(file)
                nb == NeedsRebuild(force, l, Len(products), model_name)
            IN /\ ens' = [kind |-> "decided", force |-> force, loaded |-> l,
                          nprod |-> Len(products), model |-> model_name,
                          build |-> nb, ret |-> IF nb THEN <<>> ELSE l.items,
                          after |-> (bld.state = "saved"),
                          nfail |-> Len(products) - Cardinality(bld.loaded)]
               /\ IF nb
                  THEN /\ pc' = "build"
                       /\ pos' = 0
                       /\ items' = <<>>
                       /\ batch_ids' = <<>>
                       /\ bld' = [state |-> "running", loaded |-> {},
                                  hit |-> FALSE, prev |-> file]
                       /\ UNCHANGED <<force, caller, idx, out>>
                  ELSE /\ ReturnIndex(l.items)
                       /\ UNCHANGED <<pos, items, batch_ids, bld, out>>
    /\ UNCHANGED <<products, model_name, file, observed, q>>

\* build_index, lines 113-122: one iteration of the loop.  load_image or
\* preprocess may raise for this product (a bad item, or the resolver being
\* down); a full batch is flushed, and encode_image may raise (the embedder
\* being down).  Either exception is caught at line 121.
BuildIterWith(Causes) ==
    /\ pc = "build"
    /\ pos < Len(products)
    /\ pos' = pos + 1
    /\ \/ \E cause \in Causes :
            /\ bld' = [bld EXCEPT !.hit = @ \/ (cause = "resolver")]
            /\ UNCHANGED <<items, batch_ids>>
       \/ LET b1 == Append(batch_ids, products[pos + 1].id)
              l1 == bld.loaded \cup {products[pos + 1].id}
          IN IF Len(b1) >= B
             THEN \/ /\ items' = FlushBatch(items, b1).items
                     /\ batch_ids' = FlushBatch(items, b1).batch
                     /\ bld' = [bld EXCEPT !.loaded = l1]
                  \/ /\ items' = items
                     /\ batch_ids' = b1
                     /\ bld' = [bld EXCEPT !.loaded = l1, !.hit = TRUE]
             ELSE /\ batch_ids' = b1
                  /\ bld' = [bld EXCEPT !.loaded = l1]
                  /\ UNCHANGED items
    /\ UNCHANGED <<products, model_name, file, pc, force, caller, idx, out,
                   observed, ens, q>>

BuildIter == BuildIterWith({"item", "resolver"})

\* Per-item failures only (the resolver itself stays up).
BuildIterItems == BuildIterWith({"item"})

\* build_index, line 123: the last flush_batch, outside the try
BuildFinish ==
    /\ pc = "build"
    /\ pos = Len(products)
    /\ \/ /\ batch_ids = <<>>
          /\ pc' = "save_open"
          /\ UNCHANGED <<items, batch_ids, bld, out, pos>>
       \/ /\ batch_ids # <<>>
          /\ items' = FlushBatch(items, batch_ids).items
          /\ batch_ids' = FlushBatch(items, batch_ids).batch
          /\ pc' = "save_open"
          /\ UNCHANGED <<bld, out, pos>>
       \/ /\ batch_ids # <<>>
          /\ bld' = [bld EXCEPT !.state = "aborted", !.hit = TRUE]
          /\ RaiseFrom
          /\ pos' = 0
          /\ items' = <<>>
          /\ batch_ids' = <<>>
    /\ UNCHANGED <<products, model_name, file, force, caller, idx, observed,
                   ens, q>>

\* save_embeddings, line 81: open(EMBEDDINGS_JSON, 'w') truncates the file
SaveOpen ==
    /\ pc = "save_open"
    /\ file' = EmptyFile
    /\ pc' = "save_dump"
    /\ UNCHANGED <<products, model_name, force, caller, pos, items,
                   batch_ids, idx, out, observed, ens, bld, q>>

\* save_embeddings, line 82: json.dump has written part of the payload
SaveDump ==
    /\ pc = "save_dump"
    /\ file.kind = "empty"
    /\ items # <<>>
    /\ file' = PartialFile
    /\ UNCHANGED <<products, model_name, pc, force, caller, pos, items,
                   batch_ids, idx, out, observed, ens, bld, q>>

\* save_embeddings, line 82 to the end of the with block, then
\* build_index lines 126-127 and ensure_index line 135
SaveClose ==
    /\ pc = "save_dump"
    /\ items = <<>> \/ file.kind = "partial"
    /\ file' = Payload(model_name, items)
    /\ bld' = [bld EXCEPT !.state = "saved"]
    /\ ReturnIndex(items)
    /\ pos' = 0
    /\ items' = <<>>
    /\ batch_ids' = <<>>
    /\ UNCHANGED <<products, model_name, out, observed, ens, q>>

\* search, lines 145-176 after ensure_index has returned, and main's print
RankWith(Scores, TopKs, MinScores) ==
    /\ pc = "rank"
    /\ LET ids == Retained(idx, products)
           n == Len(ids)
       IN IF n = 0
          THEN \* line 151: RuntimeError('Empty Embeddings Index')
               /\ out' = ErrOut
               /\ pc' = "error"
               /\ q' = [kind |-> "empty", index |-> idx]
          ELSE \E sims \in [1..n -> Scores], top_k \in TopKs,
                  min_score \in MinScores :
                 LET k == TopKCount(top_k, n) IN
                 IF k < 0
                 THEN \* torch.topk raises on a negative k
                      /\ out' = ErrOut
                      /\ pc' = "error"
                      /\ q' = [kind |-> "badk", index |-> idx]
                 ELSE \E sel \in TopK(sims, k) :
                        /\ out' = [kind |-> "ok",
                                   results |-> Rows(products, ids, sims, sel,
                                                    min_score, 1)]
                        /\ pc' = "done"
                        /\ q' = [kind |-> "ranked", index |-> idx,
                                 ids |-> ids, sims |-> sims, top_k |-> top_k,
                                 min_score |-> min_score, sel |-> sel]
    /\ UNCHANGED <<products, model_name, file, force, caller, pos, items,
                   batch_ids, idx, observed, ens, bld>>

\* Any query: any scores in range, any --top_k, any --min_score
Rank == RankWith(ScoreVals, TopKVals, ScoreVals)

\* One fixed query (the default --min_score 0.0, --top_k 1, every retained
\* record scoring 0): the index specification follows the file, not the
\* ranking, which SpecQuery checks for every query.
RankDefault == RankWith({0}, {1}, {0})

\* search, line 155: the query image cannot be loaded
QueryImageFails ==
    /\ pc = "rank"
    /\ Retained(idx, products) # <<>>
    /\ out' = ErrOut
    /\ pc' = "error"
    /\ q' = [kind |-> "noimage", index |-> idx]
    /\ UNCHANGED <<products, model_name, file, force, caller, pos, items,
                   batch_ids, idx, observed, ens, bld>>

\* The process is killed (signal, power loss, full disk during json.dump):
\* its memory is gone, the file stays as it is.
Kill ==
    /\ pc \in {"ensure", "build", "save_open", "save_dump", "rank"}
    /\ pc' = "killed"
    /\ pos' = 0
    /\ items' = <<>>
    /\ batch_ids' = <<>>
    /\ bld' = IF bld.state = "running" THEN [bld EXCEPT !.state = "killed"]
              ELSE bld
    /\ UNCHANGED <<products, model_name, file, force, caller, idx, out,
                   observed, ens, q>>

\* The process has ended; the next invocation starts from scratch.
Exit ==
    /\ pc \in Terminal
    /\ pc' = "idle"
    /\ force' = FALSE
    /\ caller' = "search"
    /\ idx' = <<>>
    /\ out' = NoOut
    /\ ens' = NoEns
    /\ q' = NoQ
    /\ bld' = IF bld.state = "saved"
              THEN [bld EXCEPT !.hit = FALSE, !.prev = NoFile]
              ELSE NoBld
    /\ UNCHANGED <<products, model_name, file, pos, items, batch_ids,
                   observed>>

\* ------------------------------------------------------------ environment
\* The catalog owner appends a product to products.json between runs.
AddProductWith(MetaSet) ==
    /\ pc = "idle"
    /\ \E i \in Ids \ ProductIds(products), m \in MetaSet :
        products' = Append(products, [id |-> i, meta |-> m])
    /\ bld' = NoBld
    /\ UNCHANGED <<model_name, file, pc, force, caller, pos, items,
                   batch_ids, idx, out, observed, ens, q>>

AddProduct == AddProductWith(Metas)

\* The lifecycle code never reads a product's metadata: one value is enough
\* in the index specification.
AddProductPlain == AddProductWith({"m1"})

\* The catalog owner removes a product from products.json between runs.
RemoveProduct ==
    /\ pc = "idle"
    /\ \E j \in 1..Len(products) :
        products' = SubSeq(products, 1, j - 1)
                        \o SubSeq(products, j + 1, Len(products))
    /\ bld' = NoBld
    /\ UNCHANGED <<model_name, file, pc, force, caller, pos, items,
                   batch_ids, idx, out, observed, ens, q>>

\* The program is redeployed with another MODEL_NAME (line 30).
Redeploy ==
    /\ pc = "idle"
    /\ model_name = OldModel
    /\ model_name' = MODEL_NAME
    /\ bld' = NoBld
    /\ UNCHANGED <<products, file, pc, force, caller, pos, items, batch_ids,
                   idx, out, observed, ens, q>>

\* Another process calls load_embeddings while this one runs.
Reader ==
    /\ observed # file.kind
    /\ observed' = file.kind
    /\ UNCHANGED <<products, model_name, file, pc, force, caller, pos, items,
                   batch_ids, idx, out, ens, bld, q>>

Next ==
    \/ MainStart
    \/ EnsureIndex
    \/ BuildIter
    \/ BuildFinish
    \/ SaveOpen
    \/ SaveDump
    \/ SaveClose
    \/ Rank
    \/ QueryImageFails
    \/ Kill
    \/ Exit
    \/ AddProduct
    \/ RemoveProduct
    \/ Redeploy
    \/ Reader

Spec == Init /\ [][Next]_vars

\* The index lifecycle: every action of Spec, with the query held fixed.
NextIndex ==
    \/ MainStart
    \/ EnsureIndex
    \/ BuildIter
    \/ BuildFinish
    \/ SaveOpen
    \/ SaveDump
    \/ SaveClose
    \/ RankDefault
    \/ QueryImageFails
    \/ Kill
    \/ Exit
    \/ AddProductPlain
    \/ RemoveProduct
    \/ Redeploy
    \/ Reader

SpecIndex == Init /\ [][NextIndex]_vars

\* ------------------------------------------------- build_index on its own
\* One call of build_index from search's ensure_index, on catalogs long
\* enough to fill a batch of B, over every pattern of failures.
BuildLens == {0, 1, 2, MaxBuildCat}

Catalog(n) == [i \in 1..n |-> [id |-> i, meta |-> "m1"]]

InitBuild ==
    /\ \E n \in BuildLens : products = Catalog(n)
    /\ model_name = MODEL_NAME
    /\ file = NoFile
    /\ pc = "build"
    /\ force = FALSE
    /\ caller = "search"
    /\ pos = 0
    /\ items = <<>>
    /\ batch_ids = <<>>
    /\ idx = <<>>
    /\ out = NoOut
    /\ observed = "none"
    /\ ens = NoEns
    /\ bld = [state |-> "running", loaded |-> {}, hit |-> FALSE,
              prev |-> file]
    /\ q = NoQ

NextBuild ==
    \/ BuildIterItems
    \/ BuildFinish
    \/ SaveOpen
    \/ SaveDump
    \/ SaveClose

SpecBuild == InitBuild /\ [][NextBuild]_vars

\* ------------------------------------------------------ search on its own
\* One ranking, over every index of distinct ids, every catalog and every
\* query.  (pmap is a dict: the order of the catalog plays no part.)
QueryIds == 1..MaxRec

MetaOf(i) == IF i % 2 = 1 THEN "m1" ELSE "m2"

RECURSIVE CatalogsFrom(_)
CatalogsFrom(i) ==
    IF i > MaxRec THEN {<<>>}
    ELSE LET rest == CatalogsFrom(i + 1) IN
         rest \cup {<<[id |-> i, meta |-> MetaOf(i)]>> \o c : c \in rest}

IndexSeqs ==
    {s \in UNION {[1..n -> QueryIds] : n \in 0..MaxRec} :
        \A i, j \in 1..Len(s) : i # j => s[i] # s[j]}

InitQuery ==
    /\ products \in CatalogsFrom(1)
    /\ model_name = MODEL_NAME
    /\ idx \in IndexSeqs
    /\ file = Payload(MODEL_NAME, idx)
    /\ pc = "rank"
    /\ force = FALSE
    /\ caller = "search"
    /\ pos = 0
    /\ items = <<>>
    /\ batch_ids = <<>>
    /\ out = NoOut
    /\ observed = "none"
    /\ ens = NoEns
    /\ bld = NoBld
    /\ q = NoQ

NextQuery ==
    \/ Rank
    \/ QueryImageFails

SpecQuery == InitQuery /\ [][NextQuery]_vars

\* ================================================================= claims

\* The ids of the first n catalog entries whose image was loaded and
\* preprocessed, in catalog order.
Successes(prods, n, ok) ==
    SelectSeq([j \in 1..n |-> prods[j].id], LAMBDA i : i \in ok)

\* C1: whenever ensure_index has loaded the file and decided, it runs
\* build_index if and only if the rebuild flag is set, or no persisted index
\* exists, or the persisted model differs from the current one, or the
\* persisted count is smaller than the number of catalog items; otherwise it
\* returns the index as loaded, the file is untouched and no build runs.
C1_RebuildIff ==
    ens.kind = "decided" =>
        /\ ens.build <=> \/ ens.force
                         \/ ens.loaded.kind = "absent"
                         \/ ens.loaded.model # ens.model
                         \/ ens.loaded.count < ens.nprod
        /\ ens.build => bld.state # "none"
        /\ ~ens.build =>
              /\ ens.ret = ens.loaded.items
              /\ file = ens.loaded
              /\ pc \notin {"build", "save_open", "save_dump"}
              /\ pc = "rank" => idx = file.items

\* C1 witness: a non-empty catalog, a persisted index of the current model
\* with count = len(catalog), no force: the index is reused.
C1_Witness ==
    /\ ens.kind = "decided"
    /\ ~ens.build
    /\ ~ens.force
    /\ ens.nprod > 0
    /\ ens.loaded.count = ens.nprod
    /\ pc = "rank"

\* C2 (as claimed): a reader of the file sees absence or a complete index,
\* never an empty or partly written file, also after an interrupted save.
C2_AtomicSave ==
    /\ observed \in {"none", "absent", "index"}
    /\ ens.kind # "none" => ~Corrupt(ens.loaded)

\* C3 (as claimed): a build attempt that met a collaborator failure (the
\* resolver or the embedder being down) has aborted and left the file
\* exactly as it was before the attempt.
C3_FatalLeavesFile ==
    (bld.hit /\ bld.state \in {"saved", "aborted"}) =>
        /\ bld.state = "aborted"
        /\ file = bld.prev

\* C4: under every pattern of per-item failures build_index runs to its
\* save (it aborts only when encode_image itself raises at the last flush);
\* during the loop items followed by the open batch are the successes so
\* far in catalog order, and what is persisted and returned are exactly the
\* successful catalog items, once each, in catalog order, with count equal
\* to their number.
C4_BuildOrder ==
    /\ pc = "build" =>
          items \o batch_ids = Successes(products, pos, bld.loaded)
    /\ pc \in {"save_open", "save_dump"} =>
          items = Successes(products, Len(products), bld.loaded)
    /\ bld.state = "saved" =>
          /\ file = Payload(model_name,
                            Successes(products, Len(products), bld.loaded))
          /\ file.count = Cardinality(bld.loaded)
          /\ pc = "rank" => idx = file.items
    /\ bld.state = "aborted" => bld.hit

\* C4 witness: a saved build of the longest catalog in which the first
\* product failed and more than B products succeeded, so that the items
\* come from more than one flush.
C4_Witness ==
    /\ bld.state = "saved"
    /\ Len(products) = MaxBuildCat
    /\ 1 \notin bld.loaded
    /\ Cardinality(bld.loaded) > B
    /\ Cardinality(bld.loaded) < Len(products)

\* C5 (as claimed): the selected records are listed by descending score,
\* and of two records with equal scores the one earlier in the index is
\* selected and listed first.
C5_StableTies ==
    q.kind = "ranked" =>
        /\ \A i, j \in 1..Len(q.sel) : i < j =>
              \/ q.sims[q.sel[i]] > q.sims[q.sel[j]]
              \/ q.sims[q.sel[i]] = q.sims[q.sel[j]] /\ q.sel[i] < q.sel[j]
        /\ \A p \in 1..Len(q.ids) :
              (\A i \in 1..Len(q.sel) : q.sel[i] # p) =>
                  \A i \in 1..Len(q.sel) :
                      \/ q.sims[p] < q.sims[q.sel[i]]
                      \/ q.sims[p] = q.sims[q.sel[i]] /\ q.sel[i] < p

\* The selected positions whose score passes the threshold, in rank order.
Kept == SelectSeq(q.sel, LAMBDA p : q.sims[p] >= q.min_score)

\* C6: the results are the top_k selection with the records scoring below
\* min_score removed and nothing else changed: no result scores below
\* min_score, there are at most top_k results, and no retained record
\* outside the selection scores above a result or appears in the results.
C6_ThresholdAfterTopK ==
    q.kind = "ranked" =>
        /\ out.kind = "ok"
        /\ Len(q.sel) = Min(q.top_k, Len(q.ids))
        /\ Len(out.results) <= q.top_k
        /\ Len(out.results) = Len(Kept)
        /\ \A j \in 1..Len(out.results) :
              /\ out.results[j].score >= q.min_score
              /\ out.results[j].id = q.ids[Kept[j]]
              /\ out.results[j].score = q.sims[Kept[j]]
              /\ \A p \in 1..Len(q.ids) :
                    (\A i \in 1..Len(q.sel) : q.sel[i] # p) =>
                        q.sims[p] <= out.results[j].score

\* C6 witness: three retained records, top_k = 2, the second selected
\* record is below the threshold: one result, and the third is not promoted.
C6_Witness ==
    /\ q.kind = "ranked"
    /\ Len(q.ids) = 3
    /\ q.top_k = 2
    /\ Len(out.results) = 1
    /\ \E p \in 1..3 : q.sims[p] < q.min_score /\ p \in Range(q.sel)

\* C7 (as claimed): with min_score = 0 and top_k >= 1 a query returns
\* exactly min(top_k, number of catalog-matched records) results.
C7_LenMinTopK ==
    (q.kind = "ranked" /\ q.top_k >= 1 /\ q.min_score = 0) =>
        /\ out.kind = "ok"
        /\ Len(out.results) = Min(q.top_k, Len(q.ids))

\* C7 (amended): with at least one catalog-matched record, min_score = 0 and
\* top_k >= 1, the query ranks min(top_k, matched) records and returns those
\* of them whose score is not negative; the length is min(top_k, matched)
\* exactly when none of the selected scores is negative.  With no matched
\* record the query ends in an error and returns no list.
C7_LenNonNegative ==
    /\ (q.kind = "ranked" /\ q.top_k >= 1 /\ q.min_score = 0) =>
          /\ out.kind = "ok"
          /\ Len(q.sel) = Min(q.top_k, Len(q.ids))
          /\ Len(out.results) =
                Cardinality({j \in 1..Len(q.sel) : q.sims[q.sel[j]] >= 0})
          /\ (Len(out.results) = Min(q.top_k, Len(q.ids)))
                <=> \A j \in 1..Len(q.sel) : q.sims[q.sel[j]] >= 0
    /\ q.kind = "empty" => out.kind = "error"

\* C7 witness: min_score = 0, top_k >= 1, a selected record with a negative
\* score next to one that is kept: fewer results than min(top_k, matched).
C7_Witness ==
    /\ q.kind = "ranked"
    /\ q.top_k >= 1
    /\ q.min_score = 0
    /\ Len(out.results) >= 1
    /\ Len(out.results) < Min(q.top_k, Len(q.ids))

\* C8: every result's id is in the catalog and has a record in the index
\* the query was answered from, and its metadata is that of the catalog
\* product with the same id.
C8_ResultsJoin ==
    out.kind = "ok" =>
        \A j \in 1..Len(out.results) :
            /\ out.results[j].id \in ProductIds(products)
            /\ out.results[j].id \in Range(idx)
            /\ \A l \in 1..Len(products) :
                  products[l].id = out.results[j].id =>
                      products[l].meta = out.results[j].meta

\* C8 witness: results are returned while the index holds a record of a
\* product removed from the catalog and the catalog holds a product without
\* a record, placed before the products that have one.
C8_Witness ==
    /\ out.kind = "ok"
    /\ Len(out.results) >= 1
    /\ \E i \in Range(idx) : i \notin ProductIds(products)
    /\ products # <<>>
    /\ products[1].id \notin Range(idx)

\* C9 (as claimed): an ensure_index called with rebuild set while the file
\* is corrupt runs the build, and the run does not die on the parse error.
C9_ForcedRebuildRecovers ==
    (ens.kind # "none" /\ ens.force /\ Corrupt(ens.loaded)) =>
        /\ ens.build
        /\ pc # "crashed"

\* C10: while the catalog and the model stay as they were at the last
\* completed build, the file holds that build's successes, so that the next
\* ensure_index builds again if and only if it is forced or an item failed
\* in that build (count < len(catalog)); after a build in which every item
\* succeeded an unforced query runs no build.
C10_Staleness ==
    /\ bld.state = "saved" =>
          /\ file.kind = "index"
          /\ file.model = model_name
          /\ file.count = Cardinality(bld.loaded)
          /\ file.count <= Len(products)
    /\ (ens.kind = "decided" /\ ens.after) =>
          /\ ens.loaded.count = ens.nprod - ens.nfail
          /\ ens.build <=> (ens.force \/ ens.nfail > 0)

\* C10 witness: an unforced ensure_index that follows a completed build which
\* persisted fewer items than the unchanged catalog holds builds again.
C10_Witness ==
    /\ ens.kind = "decided"
    /\ ens.after
    /\ ~ens.force
    /\ ens.nfail > 0
    /\ ens.build
    /\ pc = "build"

====
